---- MODULE Spec2Model ----
(***************************************************************************)
(* Scope-wide metadata of cdk8s (packages/cdk8s/lib/metadata.ts): the      *)
(* Metadata construct that is attached to a scope under a reserved id,     *)
(* its mutators, and the two resolvers that walk the scope tree.           *)
(*                                                                         *)
(* Encoding of JavaScript values:                                          *)
(*   - undefined is Undefined (-1);                                        *)
(*   - a string is a natural number: 0 is the empty string '', 1..NumStrs  *)
(*     are distinct non-empty strings;                                     *)
(*   - a label name is a number in 1..NumKeys whose order is the           *)
(*     lexicographic order of the names;                                   *)
(*   - an object (Labels) is the sequence of its <<key, value>> entries    *)
(*     in insertion order, keys distinct, as Object.keys/entries list it;  *)
(*   - the optional field labels?: Labels is NoLabels (<<>>) while         *)
(*     undefined and <<obj>> once it holds the object obj;                 *)
(*   - a construct is a scope number; a Metadata object is a reference,   *)
(*     a key of heap (its identity): the n-th Metadata constructed in      *)
(*     scope s gets the reference s + (n - 1) * NumScopes, so that every   *)
(*     construction yields a reference no other object has.                *)
(***************************************************************************)
EXTENDS Integers, Sequences, FiniteSets, TLC

\* Bounds of the model.
NumScopes == 3
NumKeys == 2
NumStrs == 2
MaxCalls == 4

Undefined == -1
EmptyString == 0

\* the id of the Metadata construct added to scopes in which metadata is defined.
id == "$cdk8s.Metadata"

Scopes == 1..NumScopes
Keys == 1..NumKeys
Strs == 1..NumStrs

VARIABLES
    nodeScope,  \* Node.of(c).scope: the parent of each construct, Undefined for the root
    children,   \* Node.of(c).children: the children of each construct, in creation order
    heap,       \* the Metadata objects constructed so far, by reference: their fields
    call,       \* the last call: its name, receiver or argument scope, argument, return value
    prev,       \* children and heap as they were when the last call was made
    ncalls      \* number of calls made that change the tree

vars == <<nodeScope, children, heap, call, prev, ncalls>>

\* The tree as one value: what the operations read and return.
Cur == [children |-> children, heap |-> heap]

(***************************************************************************)
(* Objects with string keys.                                               *)
(***************************************************************************)
HasKey(obj, k) == \E i \in 1..Len(obj) : obj[i][1] = k

KeysOf(obj) == { obj[i][1] : i \in 1..Len(obj) }

\* obj[k], undefined when the key is missing
Get(obj, k) ==
    IF HasKey(obj, k)
    THEN obj[CHOOSE i \in 1..Len(obj) : obj[i][1] = k][2]
    ELSE Undefined

\* obj[k] = v: an existing key keeps its place, a new key is appended
Put(obj, k, v) ==
    IF HasKey(obj, k)
    THEN [i \in 1..Len(obj) |-> IF obj[i][1] = k THEN <<k, v>> ELSE obj[i]]
    ELSE Append(obj, <<k, v>>)

RECURSIVE PutAll(_, _)
PutAll(obj, entries) ==
    IF entries = <<>> THEN obj
    ELSE PutAll(Put(obj, Head(entries)[1], Head(entries)[2]), Tail(entries))

\* { ...a, ...b }
Spread(a, b) == PutAll(a, b)

\* what ...x spreads for an optional x: nothing when x is undefined
NoLabels == <<>>

Spreadable(opt) == IF opt = NoLabels THEN <<>> ELSE opt[1]

\* Object.keys(obj).sort()
RECURSIVE SortedKeys(_)
SortedKeys(ks) ==
    IF ks = {} THEN <<>>
    ELSE LET m == CHOOSE k \in ks : \A j \in ks : k <= j
         IN  <<m>> \o SortedKeys(ks \ {m})

sortByKey(obj) ==
    LET ks == SortedKeys(KeysOf(obj))
    IN  [i \in 1..Len(ks) |-> <<ks[i], Get(obj, ks[i])>>]

IsDefinedEntry(e) == e[2] # Undefined

filterUndefined(obj) == SelectSeq(obj, IsDefinedEntry)

\* Two objects hold the same key/value pairs (toStrictEqual ignores key order).
SameMapping(a, b) ==
    /\ KeysOf(a) = KeysOf(b)
    /\ \A k \in KeysOf(a) : Get(a, k) = Get(b, k)

(***************************************************************************)
(* The static side of Metadata.  t is a tree: [children, heap].            *)
(***************************************************************************)
\* Node.of(scope).tryFindChild(id)
tryFindChild(t, scope, childId) ==
    LET cs == t.children[scope]
        hits == { i \in 1..Len(cs) : cs[i].id = childId }
    IN  IF hits = {} THEN Undefined
        ELSE cs[CHOOSE i \in hits : \A j \in hits : i <= j].obj

tryGetMetadata(t, scope) == tryFindChild(t, scope, id)

RECURSIVE lookupMetadata(_, _)
lookupMetadata(t, scope) ==
    IF scope = Undefined THEN Undefined
    ELSE IF tryGetMetadata(t, scope) # Undefined THEN tryGetMetadata(t, scope)
    ELSE lookupMetadata(t, nodeScope[scope])

\* lookupMetadata(scope)?.namespace and lookupMetadata(scope)?.labels
FieldNamespace(t, md) == IF md = Undefined THEN Undefined ELSE t.heap[md].namespace

FieldLabels(t, md) == IF md = Undefined THEN NoLabels ELSE t.heap[md].labels

\* Mutant: lookupMetadata(scope)?.namespace alone, without "?? resolveNamespace(parent)".
resolveNamespace_nearestRecord(t, scope) ==
    IF scope = Undefined THEN Undefined
    ELSE LET resolved == FieldNamespace(t, lookupMetadata(t, scope))
         IN  IF resolved # EmptyString THEN resolved ELSE Undefined

\* Mutant: "||" in place of "??", so that '' falls through to the parent scope.
RECURSIVE resolveNamespace_or(_, _)
resolveNamespace_or(t, scope) ==
    IF scope = Undefined THEN Undefined
    ELSE LET own == FieldNamespace(t, lookupMetadata(t, scope))
             resolved == IF own # Undefined /\ own # EmptyString THEN own
                         ELSE resolveNamespace_or(t, nodeScope[scope])
         IN  IF resolved # EmptyString THEN resolved ELSE Undefined

RECURSIVE resolveNamespace(_, _)
resolveNamespace(t, scope) ==
    IF scope = Undefined THEN Undefined
    ELSE LET own == FieldNamespace(t, lookupMetadata(t, scope))
             resolved == IF own # Undefined THEN own
                         ELSE resolveNamespace(t, nodeScope[scope])
         IN  IF resolved # EmptyString THEN resolved ELSE Undefined

\* Mutant: the merged object is returned without filterUndefined.
RECURSIVE resolveLabels_noFilter(_, _)
resolveLabels_noFilter(t, scope) ==
    IF scope = Undefined THEN <<>>
    ELSE Spread(resolveLabels_noFilter(t, nodeScope[scope]),
                Spreadable(FieldLabels(t, lookupMetadata(t, scope))))

\* Mutant: the two spreads swapped, so that the labels of the parent scope win.
RECURSIVE resolveLabels_parentWins(_, _)
resolveLabels_parentWins(t, scope) ==
    IF scope = Undefined THEN <<>>
    ELSE filterUndefined(Spread(Spreadable(FieldLabels(t, lookupMetadata(t, scope))),
                                resolveLabels_parentWins(t, nodeScope[scope])))

RECURSIVE resolveLabels(_, _)
resolveLabels(t, scope) ==
    IF scope = Undefined THEN <<>>
    ELSE filterUndefined(Spread(resolveLabels(t, nodeScope[scope]),
                                Spreadable(FieldLabels(t, lookupMetadata(t, scope)))))

\* The children of scope that have the reserved id.
MetadataChildren(t, scope) ==
    { i \in 1..Len(t.children[scope]) : t.children[scope][i].id = id }

\* The reference of the next Metadata object constructed in scope.
NewRef(t, scope) == scope + NumScopes * Cardinality(MetadataChildren(t, scope))

\* new Metadata(scope, id): the construct is added to the children of scope
NewMetadata(t, scope) ==
    [children |-> [t.children EXCEPT
                     ![scope] = Append(@, [id |-> id, obj |-> NewRef(t, scope)])],
     heap |-> t.heap @@ (NewRef(t, scope) :> [labels |-> NoLabels, namespace |-> Undefined]),
     ret |-> NewRef(t, scope)]

\* Mutant: a Metadata construct is created on every call.
of_alwaysNew(t, scope) == NewMetadata(t, scope)

\* Metadata.of(scope): the tree afterwards and the object returned
of(t, scope) ==
    IF tryGetMetadata(t, scope) # Undefined
    THEN [children |-> t.children, heap |-> t.heap, ret |-> tryGetMetadata(t, scope)]
    ELSE NewMetadata(t, scope)

(***************************************************************************)
(* The methods of a Metadata object: the heap after the call on self.      *)
(***************************************************************************)
\* Mutant: an undefined value deletes the key from the stored labels.
addLabels_dropUndefined(h, self, labels) ==
    [h EXCEPT ![self].labels =
       <<sortByKey(filterUndefined(Spread(Spreadable(h[self].labels), labels)))>>]

\* Mutant: the given labels replace the existing ones.
addLabels_replace(h, self, labels) ==
    [h EXCEPT ![self].labels = <<sortByKey(labels)>>]

\* Mutant: labels is a static field, shared by every Metadata object.
addLabels_static(h, self, labels) ==
    [md \in DOMAIN h |->
       [h[md] EXCEPT !.labels = <<sortByKey(Spread(Spreadable(h[self].labels), labels))>>]]

addLabels(h, self, labels) ==
    [h EXCEPT ![self].labels = <<sortByKey(Spread(Spreadable(h[self].labels), labels))>>]

removeLabel(h, self, label) == addLabels(h, self, <<<<label, Undefined>>>>)

\* Mutant: namespace is a static field, shared by every Metadata object.
addNamespace_static(h, self, value) ==
    [md \in DOMAIN h |->
       [h[md] EXCEPT !.namespace = IF value = Undefined THEN EmptyString ELSE value]]

\* Mutant: the value is stored as given, undefined included.
addNamespace_keepUndefined(h, self, value) ==
    [h EXCEPT ![self].namespace = value]

addNamespace(h, self, value) ==
    [h EXCEPT ![self].namespace = IF value = Undefined THEN EmptyString ELSE value]

removeNamespace(h, self) == addNamespace(h, self, Undefined)

(***************************************************************************)
(* Inputs.                                                                 *)
(***************************************************************************)
\* Every object literal over Keys: any insertion order, a value or undefined per key.
LabelInputs ==
    { obj \in UNION { [1..n -> Keys \X (Strs \cup {Undefined})] : n \in 0..NumKeys } :
        \A i, j \in 1..Len(obj) : i # j => obj[i][1] # obj[j][1] }

NamespaceInputs == {Undefined, EmptyString} \cup Strs

\* The scope trees: construct 1 is the root, every other construct is created
\* in the scope of an earlier one.
TreeShapes ==
    { f \in [Scopes -> Scopes \cup {Undefined}] :
        /\ f[1] = Undefined
        /\ \A s \in Scopes \ {1} : f[s] # Undefined /\ f[s] < s }

ScopeId(s) == "c" \o ToString(s)

RECURSIVE ChildrenIn(_, _, _)
ChildrenIn(f, s, c) ==
    IF c > NumScopes THEN <<>>
    ELSE (IF f[c] = s THEN <<[id |-> ScopeId(c), obj |-> c]>> ELSE <<>>)
         \o ChildrenIn(f, s, c + 1)

(***************************************************************************)
(* The state machine.                                                      *)
(***************************************************************************)
Init ==
    /\ nodeScope \in TreeShapes
    /\ children = [s \in Scopes |-> ChildrenIn(nodeScope, s, 1)]
    /\ heap = <<>>
    /\ call = [op |-> "new", target |-> Undefined, arg |-> Undefined, ret |-> Undefined]
    /\ prev = [children |-> children, heap |-> heap]
    /\ ncalls = 0

Of(scope) ==
    /\ LET r == of(Cur, scope)
       IN  /\ children' = r.children
           /\ heap' = r.heap
           /\ call' = [op |-> "of", target |-> scope, arg |-> Undefined, ret |-> r.ret]
    /\ prev' = Cur
    /\ UNCHANGED nodeScope

AddLabels(self, labels) ==
    /\ heap' = addLabels(heap, self, labels)
    /\ call' = [op |-> "addLabels", target |-> self, arg |-> labels, ret |-> Undefined]
    /\ prev' = Cur
    /\ UNCHANGED <<nodeScope, children>>

RemoveLabel(self, label) ==
    /\ heap' = removeLabel(heap, self, label)
    /\ call' = [op |-> "removeLabel", target |-> self, arg |-> label, ret |-> Undefined]
    /\ prev' = Cur
    /\ UNCHANGED <<nodeScope, children>>

AddNamespace(self, value) ==
    /\ heap' = addNamespace(heap, self, value)
    /\ call' = [op |-> "addNamespace", target |-> self, arg |-> value, ret |-> Undefined]
    /\ prev' = Cur
    /\ UNCHANGED <<nodeScope, children>>

RemoveNamespace(self) ==
    /\ heap' = removeNamespace(heap, self)
    /\ call' = [op |-> "removeNamespace", target |-> self, arg |-> Undefined,
                ret |-> Undefined]
    /\ prev' = Cur
    /\ UNCHANGED <<nodeScope, children>>

ResolveNamespace(scope) ==
    /\ call' = [op |-> "resolveNamespace", target |-> scope, arg |-> Undefined,
                ret |-> resolveNamespace(Cur, scope)]
    /\ prev' = Cur
    /\ UNCHANGED <<nodeScope, children, heap, ncalls>>

ResolveLabels(scope) ==
    /\ call' = [op |-> "resolveLabels", target |-> scope, arg |-> Undefined,
                ret |-> resolveLabels(Cur, scope)]
    /\ prev' = Cur
    /\ UNCHANGED <<nodeScope, children, heap, ncalls>>

\* One more call that may change the tree, while the bound allows it.
Counted == ncalls < MaxCalls /\ ncalls' = ncalls + 1

\* Every operation on every input, at most MaxCalls calls of Metadata.of and of
\* the mutators, any number of resolutions.
Next ==
    \/ \E scope \in Scopes : Counted /\ Of(scope)
    \/ \E self \in DOMAIN heap, labels \in LabelInputs : Counted /\ AddLabels(self, labels)
    \/ \E self \in DOMAIN heap, label \in Keys : Counted /\ RemoveLabel(self, label)
    \/ \E self \in DOMAIN heap, value \in NamespaceInputs :
          Counted /\ AddNamespace(self, value)
    \/ \E self \in DOMAIN heap : Counted /\ RemoveNamespace(self)
    \/ \E scope \in Scopes \cup {Undefined} : ResolveNamespace(scope)
    \/ \E scope \in Scopes \cup {Undefined} : ResolveLabels(scope)

Spec == Init /\ [][Next]_vars

\* The namespace operations alone, any number of calls: the labels stay undefined,
\* every combination of namespaces over the tree is reached.
NextNs ==
    \/ \E scope \in Scopes : Of(scope) /\ UNCHANGED ncalls
    \/ \E self \in DOMAIN heap, value \in NamespaceInputs :
          AddNamespace(self, value) /\ UNCHANGED ncalls
    \/ \E self \in DOMAIN heap : RemoveNamespace(self) /\ UNCHANGED ncalls
    \/ \E scope \in Scopes \cup {Undefined} : ResolveNamespace(scope)

SpecNs == Init /\ [][NextNs]_vars

(***************************************************************************)
(* Vocabulary of the properties.                                           *)
(***************************************************************************)
RECURSIVE IsAncestorOrSelf(_, _)
IsAncestorOrSelf(a, s) ==
    s # Undefined /\ (a = s \/ IsAncestorOrSelf(a, nodeScope[s]))

IsProperAncestor(a, s) == a # s /\ IsAncestorOrSelf(a, s)

\* Node.of(metadata).scope: the scope a Metadata object was constructed in
ScopeOfMetadata(t, md) ==
    CHOOSE s \in Scopes : \E i \in 1..Len(t.children[s]) : t.children[s][i].obj = md
                                                         /\ t.children[s][i].id = id

\* The overrides of the scope's own record: undefined / no entries without one.
OwnNamespace(t, s) == FieldNamespace(t, tryGetMetadata(t, s))

OwnLabels(t, s) == Spreadable(FieldLabels(t, tryGetMetadata(t, s)))

\* The scopes on the path from s to the root that decide the namespace.
Deciders(t, s) ==
    { a \in Scopes : IsAncestorOrSelf(a, s) /\ OwnNamespace(t, a) # Undefined }

NearestDecider(t, s) ==
    CHOOSE a \in Deciders(t, s) : \A b \in Deciders(t, s) : IsAncestorOrSelf(b, a)

ExpectedNamespace(t, s) ==
    IF Deciders(t, s) = {} THEN Undefined
    ELSE IF OwnNamespace(t, NearestDecider(t, s)) = EmptyString THEN Undefined
    ELSE OwnNamespace(t, NearestDecider(t, s))

IsNamespaceRemoval ==
    \/ call.op = "removeNamespace"
    \/ call.op = "addNamespace" /\ call.arg \in {Undefined, EmptyString}

(***************************************************************************)
(* C1: in every reachable state, resolveNamespace(scope) is the decision   *)
(* of the nearest scope on the path from scope to the root whose own       *)
(* record has a namespace that is not undefined: that string when it is    *)
(* not empty, undefined when it is '' (no fall through to a farther        *)
(* ancestor), and undefined when no scope on the path decides.  A record   *)
(* whose namespace is undefined is skipped.                                *)
(***************************************************************************)
C1_NearestNamespaceDecision ==
    /\ \A s \in Scopes : resolveNamespace(Cur, s) = ExpectedNamespace(Cur, s)
    /\ resolveNamespace(Cur, Undefined) = Undefined
    /\ call.op = "resolveNamespace" /\ call.target # Undefined
         => call.ret = ExpectedNamespace(Cur, call.target)

\* resolveNamespace was called on a scope whose own record leaves the namespace
\* undefined, below a scope that removed it, below a scope that set a string.
C1_Witness ==
    /\ call.op = "resolveNamespace"
    /\ call.target # Undefined
    /\ tryGetMetadata(Cur, call.target) # Undefined
    /\ OwnNamespace(Cur, call.target) = Undefined
    /\ \E a, b \in Scopes :
          /\ IsProperAncestor(a, call.target)
          /\ IsProperAncestor(b, a)
          /\ OwnNamespace(Cur, a) = EmptyString
          /\ OwnNamespace(Cur, b) \in Strs
    /\ call.ret = Undefined

(***************************************************************************)
(* C6: addNamespace(''), addNamespace(undefined) and removeNamespace()     *)
(* leave the record with the same namespace '', whatever it held before;   *)
(* resolveNamespace of the record's scope is then undefined, also below a  *)
(* scope with a non-empty namespace; and after addNamespace(s) with a      *)
(* non-empty s, resolveNamespace of the record's scope is s.               *)
(***************************************************************************)
C6_RemovalIsTombstone ==
    /\ \A self \in DOMAIN heap :
          /\ addNamespace(heap, self, EmptyString) = addNamespace(heap, self, Undefined)
          /\ addNamespace(heap, self, EmptyString) = removeNamespace(heap, self)
    /\ IsNamespaceRemoval =>
          /\ heap[call.target].namespace = EmptyString
          /\ resolveNamespace(Cur, ScopeOfMetadata(Cur, call.target)) = Undefined
    /\ call.op = "addNamespace" /\ call.arg \in Strs =>
          /\ heap[call.target].namespace = call.arg
          /\ resolveNamespace(Cur, ScopeOfMetadata(Cur, call.target)) = call.arg

\* A string was set again on a record that held '', below a scope with another
\* non-empty namespace.
C6_Witness ==
    /\ call.op = "addNamespace"
    /\ call.arg \in Strs
    /\ prev.heap[call.target].namespace = EmptyString
    /\ resolveNamespace(prev, ScopeOfMetadata(prev, call.target)) = Undefined
    /\ \E a \in Scopes :
          /\ IsProperAncestor(a, ScopeOfMetadata(Cur, call.target))
          /\ OwnNamespace(Cur, a) \in Strs \ {call.arg}
    /\ resolveNamespace(Cur, ScopeOfMetadata(Cur, call.target)) = call.arg

(***************************************************************************)
(* C10: once addNamespace or removeNamespace has been called on a record,  *)
(* its namespace is never undefined again: a namespace that is not         *)
(* undefined before a call is not undefined after it, and from then on     *)
(* resolveNamespace of the record's scope is given by its own namespace    *)
(* alone (undefined for '', the string otherwise).                         *)
(***************************************************************************)
C10_NamespaceNeverUndefinedAgain ==
    /\ call.op \in {"addNamespace", "removeNamespace"}
         => heap[call.target].namespace # Undefined
    /\ \A md \in DOMAIN prev.heap :
          prev.heap[md].namespace # Undefined => heap[md].namespace # Undefined
    /\ \A s \in Scopes :
          OwnNamespace(Cur, s) # Undefined =>
            resolveNamespace(Cur, s) =
              (IF OwnNamespace(Cur, s) = EmptyString THEN Undefined
               ELSE OwnNamespace(Cur, s))

\* removeNamespace was called on a record that held a string, below a scope with a
\* non-empty namespace: the scope does not resolve to the ancestor's namespace.
C10_Witness ==
    /\ call.op = "removeNamespace"
    /\ prev.heap[call.target].namespace \in Strs
    /\ \E a \in Scopes :
          /\ IsProperAncestor(a, ScopeOfMetadata(Cur, call.target))
          /\ resolveNamespace(Cur, a) \in Strs
    /\ resolveNamespace(Cur, ScopeOfMetadata(Cur, call.target)) = Undefined

(***************************************************************************)
(* Vocabulary of the label properties.                                     *)
(***************************************************************************)
\* The labels of the receiver before and after the last call.
OldLabels == Spreadable(prev.heap[call.target].labels)

NewLabels == Spreadable(heap[call.target].labels)

\* The keys the last call passed with the value undefined.
RemovedKeys ==
    IF call.op = "removeLabel" THEN {call.arg}
    ELSE IF call.op = "addLabels"
         THEN { k \in KeysOf(call.arg) : Get(call.arg, k) = Undefined }
         ELSE {}

\* No scope below b down to d (d included) has a value of its own for k.
NoValueBelow(t, b, d, k) ==
    \A x \in Scopes :
      IsProperAncestor(b, x) /\ IsAncestorOrSelf(x, d) => Get(OwnLabels(t, x), k) = Undefined

\* inherited overlaid with own: an own value replaces, an own undefined deletes.
Overlay(inherited, own) ==
    [k \in (KeysOf(inherited) \ KeysOf(own))
            \cup { j \in KeysOf(own) : Get(own, j) # Undefined }
       |-> IF HasKey(own, k) THEN Get(own, k) ELSE Get(inherited, k)]

AsMapping(obj) == [k \in KeysOf(obj) |-> Get(obj, k)]

(***************************************************************************)
(* C2: in every reachable state, resolveLabels(scope) is                   *)
(* resolveLabels(parent) (no entries for the root) overlaid with the       *)
(* labels of the scope's own record only: an own value replaces the        *)
(* inherited one, an own undefined deletes the key; no entry of the result *)
(* is undefined.  This holds as well for a scope without a record below a  *)
(* scope with one.                                                         *)
(***************************************************************************)
C2_LabelsOverlayOwnOnParent ==
    /\ \A s \in Scopes :
          LET resolved == resolveLabels(Cur, s)
          IN  /\ AsMapping(resolved)
                   = Overlay(resolveLabels(Cur, nodeScope[s]), OwnLabels(Cur, s))
              /\ \A i \in 1..Len(resolved) : resolved[i][2] # Undefined
              /\ Cardinality(KeysOf(resolved)) = Len(resolved)
    /\ call.op = "resolveLabels" /\ call.target # Undefined =>
          AsMapping(call.ret)
            = Overlay(resolveLabels(Cur, nodeScope[call.target]),
                      OwnLabels(Cur, call.target))

\* resolveLabels was called on a scope without a record whose nearest record, on an
\* ancestor, sets one key and removes another that a farther ancestor sets.
C2_Witness ==
    /\ call.op = "resolveLabels"
    /\ call.target # Undefined
    /\ tryGetMetadata(Cur, call.target) = Undefined
    /\ \E a, b \in Scopes, k, j \in Keys :
          /\ IsProperAncestor(a, call.target)
          /\ IsProperAncestor(b, a)
          /\ lookupMetadata(Cur, call.target) = tryGetMetadata(Cur, a)
          /\ HasKey(OwnLabels(Cur, a), k) /\ Get(OwnLabels(Cur, a), k) = Undefined
          /\ Get(OwnLabels(Cur, b), k) # Undefined
          /\ Get(OwnLabels(Cur, a), j) # Undefined
          /\ AsMapping(call.ret) = [i \in {j} |-> Get(OwnLabels(Cur, a), j)]

(***************************************************************************)
(* C3: when an ancestor A of scope B has a value for label k and B's       *)
(* record has no entry for k, then after addLabels with k undefined or     *)
(* removeLabel(k) on B's record: resolveLabels(B) has no k, resolveLabels  *)
(* of every descendant of B without a value of its own for k on the path   *)
(* below B has no k, and resolveLabels(A) still has k with A's value.      *)
(***************************************************************************)
C3_RemovalMasksAncestorLabel ==
    \A k \in RemovedKeys :
      LET B == ScopeOfMetadata(Cur, call.target)
          setters == { A \in Scopes : /\ IsProperAncestor(A, B)
                                      /\ Get(OwnLabels(prev, A), k) # Undefined }
      IN  ~HasKey(OldLabels, k) /\ setters # {} =>
            /\ ~HasKey(resolveLabels(Cur, B), k)
            /\ \A D \in Scopes :
                  IsProperAncestor(B, D) /\ NoValueBelow(Cur, B, D, k)
                    => ~HasKey(resolveLabels(Cur, D), k)
            /\ \A A \in setters :
                  Get(resolveLabels(Cur, A), k) = Get(OwnLabels(prev, A), k)

\* removeLabel(k) was called on the record of a scope that had no entry for k, that
\* resolved k from an ancestor, and that has a descendant.
C3_Witness ==
    /\ call.op = "removeLabel"
    /\ ~HasKey(OldLabels, call.arg)
    /\ HasKey(resolveLabels(prev, ScopeOfMetadata(prev, call.target)), call.arg)
    /\ ~HasKey(resolveLabels(Cur, ScopeOfMetadata(Cur, call.target)), call.arg)
    /\ \E A, D \in Scopes :
          /\ IsProperAncestor(A, ScopeOfMetadata(Cur, call.target))
          /\ IsProperAncestor(ScopeOfMetadata(Cur, call.target), D)
          /\ HasKey(resolveLabels(Cur, A), call.arg)
          /\ HasKey(resolveLabels(prev, D), call.arg)
          /\ ~HasKey(resolveLabels(Cur, D), call.arg)

(***************************************************************************)
(* C4.  The last call passed undefined, and nothing else, for keys that    *)
(* the receiver never held.                                                *)
(***************************************************************************)
IsRemovalOfUnsetKeys ==
    \/ call.op = "removeLabel" /\ ~HasKey(OldLabels, call.arg)
    \/ /\ call.op = "addLabels"
       /\ call.arg # <<>>
       /\ \A k \in KeysOf(call.arg) : Get(call.arg, k) = Undefined /\ ~HasKey(OldLabels, k)

\* C4 as stated: addLabels with undefined (or removeLabel) for a key that was never
\* set on the record is a no-op: the record's label values are the same before and
\* after, and resolveLabels of every scope is the same before and after.
C4_AsStated ==
    IsRemovalOfUnsetKeys =>
      /\ SameMapping(filterUndefined(NewLabels), filterUndefined(OldLabels))
      /\ \A s \in Scopes : SameMapping(resolveLabels(Cur, s), resolveLabels(prev, s))

\* C4 as amended: addLabels with undefined (or removeLabel) for a key k that was
\* never set on the record stores undefined under k and leaves the record's other
\* entries as they were; resolveLabels of every scope is the same before and after
\* on every other key; resolveLabels of the record's scope has no k afterwards; and
\* resolveLabels of every scope is the same before and after when the record's
\* scope did not resolve k before the call.
C4_NoOpUnlessInherited ==
    IsRemovalOfUnsetKeys =>
      LET B == ScopeOfMetadata(Cur, call.target)
      IN  /\ KeysOf(NewLabels) = KeysOf(OldLabels) \cup RemovedKeys
          /\ \A k \in RemovedKeys : Get(NewLabels, k) = Undefined
          /\ \A k \in KeysOf(OldLabels) : Get(NewLabels, k) = Get(OldLabels, k)
          /\ \A s \in Scopes, k \in Keys \ RemovedKeys :
                Get(resolveLabels(Cur, s), k) = Get(resolveLabels(prev, s), k)
          /\ \A k \in RemovedKeys : ~HasKey(resolveLabels(Cur, B), k)
          /\ (\A k \in RemovedKeys : ~HasKey(resolveLabels(prev, B), k)) =>
                \A s \in Scopes :
                  SameMapping(resolveLabels(Cur, s), resolveLabels(prev, s))

\* addLabels was called with undefined for a key that the record never held, in a
\* scope that resolved the key from an ancestor, and the key is resolved no more.
C4_Witness ==
    /\ call.op = "addLabels"
    /\ IsRemovalOfUnsetKeys
    /\ \E k \in RemovedKeys :
          /\ HasKey(resolveLabels(prev, ScopeOfMetadata(prev, call.target)), k)
          /\ ~HasKey(resolveLabels(Cur, ScopeOfMetadata(Cur, call.target)), k)

(***************************************************************************)
(* C5: every scope has at most one Metadata child, and only Metadata.of    *)
(* adds one: the first Metadata.of(scope) appends exactly one child with   *)
(* the reserved id to that scope, a later one returns that same object     *)
(* and adds nothing, Metadata.of on two different scopes returns two       *)
(* different objects, and no other call (the mutators, resolveNamespace,   *)
(* resolveLabels) adds a child or an object.                               *)
(***************************************************************************)
C5_OneRecordPerScope ==
    /\ \A s \in Scopes : Cardinality(MetadataChildren(Cur, s)) <= 1
    /\ \A s1, s2 \in Scopes :
          /\ of(of(Cur, s1), s1).ret = of(Cur, s1).ret
          /\ s1 # s2 => of(of(Cur, s1), s2).ret # of(Cur, s1).ret
    /\ call.op = "of" =>
          /\ \A s \in Scopes \ {call.target} : children[s] = prev.children[s]
          /\ tryGetMetadata(Cur, call.target) = call.ret
          /\ IF tryGetMetadata(prev, call.target) = Undefined
             THEN /\ children[call.target]
                       = Append(prev.children[call.target], [id |-> id, obj |-> call.ret])
                  /\ call.ret \notin DOMAIN prev.heap
                  /\ heap = prev.heap
                              @@ (call.ret :> [labels |-> NoLabels, namespace |-> Undefined])
             ELSE /\ call.ret = tryGetMetadata(prev, call.target)
                  /\ children = prev.children
                  /\ heap = prev.heap
    /\ call.op # "of" => children = prev.children /\ DOMAIN heap = DOMAIN prev.heap
    /\ call.op \in {"resolveNamespace", "resolveLabels"} => heap = prev.heap

\* Metadata.of was called on a scope that had its record already, while another
\* scope has a record too.
C5_Witness ==
    /\ call.op = "of"
    /\ tryGetMetadata(prev, call.target) # Undefined
    /\ call.ret = tryGetMetadata(prev, call.target)
    /\ \E s \in Scopes \ {call.target} :
          tryGetMetadata(Cur, s) \notin {Undefined, call.ret}

(***************************************************************************)
(* C7: addLabels(labels) merges: for every key not in labels the           *)
(* receiver's entry (present with its value, or absent) is what it was     *)
(* before the call, for every key of labels with a value the entry         *)
(* afterwards is that value, and the receiver's namespace, every other     *)
(* Metadata object and the children of every scope are unchanged.          *)
(***************************************************************************)
C7_AddLabelsMerges ==
    call.op = "addLabels" =>
      /\ heap[call.target].labels # NoLabels
      /\ \A k \in Keys \ KeysOf(call.arg) :
            /\ HasKey(NewLabels, k) = HasKey(OldLabels, k)
            /\ Get(NewLabels, k) = Get(OldLabels, k)
      /\ \A k \in KeysOf(call.arg) :
            Get(call.arg, k) # Undefined => Get(NewLabels, k) = Get(call.arg, k)
      /\ heap[call.target].namespace = prev.heap[call.target].namespace
      /\ DOMAIN heap = DOMAIN prev.heap
      /\ \A md \in DOMAIN heap \ {call.target} : heap[md] = prev.heap[md]
      /\ children = prev.children

\* addLabels was called with a new value for a key the receiver held and without
\* another key it held, while a second Metadata object exists.
C7_Witness ==
    /\ call.op = "addLabels"
    /\ Cardinality(DOMAIN heap) >= 2
    /\ \E k, j \in Keys :
          /\ Get(OldLabels, k) \notin {Undefined, Get(call.arg, k)}
          /\ Get(call.arg, k) # Undefined
          /\ Get(NewLabels, k) = Get(call.arg, k)
          /\ ~HasKey(call.arg, j)
          /\ Get(OldLabels, j) # Undefined
          /\ Get(NewLabels, j) = Get(OldLabels, j)

(***************************************************************************)
(* C8: resolved labels do not depend on the order of addLabels calls: for  *)
(* the addLabels call just made and any other addLabels call that is on    *)
(* another record, or on the same record with disjoint keys, making the    *)
(* other call before or after it gives the same resolveLabels for every    *)
(* scope; and where an ancestor and a descendant both hold a value for k,  *)
(* the descendant's value is resolved at the descendant and at every scope *)
(* below it that has no entry of its own for k on the way.                 *)
(***************************************************************************)
NoEntryBelow(t, b, d, k) ==
    \A x \in Scopes :
      IsProperAncestor(b, x) /\ IsAncestorOrSelf(x, d) => ~HasKey(OwnLabels(t, x), k)

C8_OrderIndependentLabels ==
    /\ call.op = "addLabels" =>
          \A other \in DOMAIN prev.heap, labels \in LabelInputs :
            other # call.target \/ KeysOf(labels) \cap KeysOf(call.arg) = {} =>
              LET after == [children |-> children,
                            heap |-> addLabels(heap, other, labels)]
                  before == [children |-> children,
                             heap |-> addLabels(addLabels(prev.heap, other, labels),
                                                call.target, call.arg)]
              IN  \A s \in Scopes :
                    SameMapping(resolveLabels(after, s), resolveLabels(before, s))
    /\ \A A, B \in Scopes, k \in Keys :
          /\ IsProperAncestor(A, B)
          /\ Get(OwnLabels(Cur, A), k) # Undefined
          /\ Get(OwnLabels(Cur, B), k) # Undefined
          => \A D \in Scopes :
               IsAncestorOrSelf(B, D) /\ NoEntryBelow(Cur, B, D, k)
                 => Get(resolveLabels(Cur, D), k) = Get(OwnLabels(Cur, B), k)

\* addLabels set a key on the record of an ancestor after a descendant had set the
\* same key to another value: the descendant still resolves its own value.
C8_Witness ==
    /\ call.op = "addLabels"
    /\ \E B \in Scopes, k \in Keys :
          /\ IsProperAncestor(ScopeOfMetadata(Cur, call.target), B)
          /\ Get(call.arg, k) # Undefined
          /\ Get(OwnLabels(prev, B), k) \notin {Undefined, Get(call.arg, k)}
          /\ Get(resolveLabels(Cur, B), k) = Get(OwnLabels(prev, B), k)
          /\ Get(resolveLabels(Cur, ScopeOfMetadata(Cur, call.target)), k)
               = Get(call.arg, k)

(***************************************************************************)
(* C9: Metadata.of, addLabels, removeLabel, addNamespace or                *)
(* removeNamespace at scope S leaves resolveNamespace(T) and               *)
(* resolveLabels(T) unchanged for every scope T that is neither S nor a    *)
(* descendant of S.                                                        *)
(***************************************************************************)
Mutators == {"addLabels", "removeLabel", "addNamespace", "removeNamespace"}

\* The scope the last call was applied at.
CallScope ==
    IF call.op = "of" THEN call.target ELSE ScopeOfMetadata(Cur, call.target)

C9_MutationsAreLocal ==
    call.op \in Mutators \cup {"of"} =>
      \A T \in Scopes :
        ~IsAncestorOrSelf(CallScope, T) =>
          /\ resolveNamespace(Cur, T) = resolveNamespace(prev, T)
          /\ SameMapping(resolveLabels(Cur, T), resolveLabels(prev, T))

\* A mutator changed what its scope resolves to, while a scope that is not below
\* it resolves a namespace and labels, the same as before.
C9_Witness ==
    /\ call.op \in Mutators
    /\ \/ resolveNamespace(Cur, CallScope) # resolveNamespace(prev, CallScope)
       \/ ~SameMapping(resolveLabels(Cur, CallScope), resolveLabels(prev, CallScope))
    /\ \E T \in Scopes :
          /\ ~IsAncestorOrSelf(CallScope, T)
          /\ ~IsAncestorOrSelf(T, CallScope)
          /\ \/ resolveNamespace(Cur, T) \in Strs
             \/ resolveLabels(Cur, T) # <<>>

====
